---- MODULE Spec2Model ----
(***************************************************************************)
(* ScholarSoup (src/main.py): the /scrape pipeline                         *)
(*   sanitize_input -> validate_url -> fetch_page_content ->               *)
(*   extract_scholarship_data -> save_to_json -> response                  *)
(* Text is a sequence of one-character strings, so that strip(), lower()   *)
(* and the substring test are computed, not assumed.  A URL is the tuple   *)
(* of components urllib.parse works on.                                    *)
(***************************************************************************)
EXTENDS Integers, Sequences, FiniteSets, TLC

VARIABLES
    pc,            \* per request thread: where scrape() is
    req,           \* per thread: the JSON payload of the request
    sanitized_url, \* per thread: scrape's local sanitized_url
    soup,          \* per thread: scrape's local soup (the parsed page)
    points,        \* per thread: scrape's local points
    resp,          \* per thread: the response returned
    fetches,       \* per thread: calls of requests.get in this invocation
    log,           \* per thread: what this invocation logged about its save
    file,          \* output/scholarships.json, shared by all threads
    fpos,          \* per thread: the write offset of its file object while open
    started,       \* invocations started so far
    lastSaved,     \* history: the data of the last save_to_json that succeeded
    torn,          \* history: the data of a write that failed after open, if later
    threads,       \* the request threads the server runs
    xdoc, xbase, xout  \* a direct call extract_scholarship_data(xdoc, xbase)

vars == <<pc, req, sanitized_url, soup, points, resp, fetches, log, file, fpos,
          started, lastSaved, torn, threads, xdoc, xbase, xout>>

\* ------------------------------------------------------------------ bounds
MaxItems == 2        \* li elements of a many-item page
MaxNodes == 2        \* child nodes of one li
MaxInvocations == 2  \* scrape invocations in one run
MaxFetches == 2      \* requests.get calls the model follows in one invocation

\* -------------------------------------------------------------------- text
None == [none |-> TRUE]

UpperChars == <<"A","B","C","D","E","F","G","H","I","J","K","L","M",
                "N","O","P","Q","R","S","T","U","V","W","X","Y","Z">>
LowerChars == <<"a","b","c","d","e","f","g","h","i","j","k","l","m",
                "n","o","p","q","r","s","t","u","v","w","x","y","z">>

\* str.lower(), one character
LowerChar(c) ==
    IF \E i \in 1..Len(UpperChars) : UpperChars[i] = c
    THEN LowerChars[CHOOSE i \in 1..Len(UpperChars) : UpperChars[i] = c]
    ELSE c

\* str.lower()
lower(s) == [i \in 1..Len(s) |-> LowerChar(s[i])]

\* the characters str.strip() removes
IsSpace(c) == c \in {" ", "\t", "\n", "\r"}

\* str.strip()
strip(s) ==
    IF \A i \in 1..Len(s) : IsSpace(s[i]) THEN <<>>
    ELSE LET a == CHOOSE i \in 1..Len(s) :
                     /\ ~IsSpace(s[i])
                     /\ \A j \in 1..(i-1) : IsSpace(s[j])
             b == CHOOSE i \in 1..Len(s) :
                     /\ ~IsSpace(s[i])
                     /\ \A j \in (i+1)..Len(s) : IsSpace(s[j])
         IN SubSeq(s, a, b)

\* Python's `sub in s`
Contains(s, sub) ==
    \E i \in 0..(Len(s) - Len(sub)) : SubSeq(s, i+1, i+Len(sub)) = sub

\* the literal 'scholarship' of line 98
Keyword == <<"s","c","h","o","l","a","r","s","h","i","p">>

\* ---------------------------------------------------------------- markup
\* A node is a text node [tag |-> "text", s], an anchor [tag |-> "a", href, kids]
\* (href = None: the attribute is absent) or an li [tag |-> "li", kids].
TextNode(s) == [tag |-> "text", s |-> s]
Anchor(h, kids) == [tag |-> "a", href |-> h, kids |-> kids]
Li(kids) == [tag |-> "li", kids |-> kids]

RECURSIVE all_strings(_)
\* Tag._all_strings: the text nodes under a node, in document order
all_strings(n) ==
    IF n.tag = "text" THEN <<n.s>>
    ELSE LET F[i \in 0..Len(n.kids)] ==
                 IF i = 0 THEN <<>> ELSE F[i-1] \o all_strings(n.kids[i])
         IN F[Len(n.kids)]

\* str.join
Join(strs, sep) ==
    LET F[i \in 0..Len(strs)] ==
            IF i = 0 THEN <<>>
            ELSE IF i = 1 THEN strs[1]
            ELSE F[i-1] \o sep \o strs[i]
    IN F[Len(strs)]

\* the stripped text runs that are not empty, in document order
StrippedRuns(n) ==
    LET raw == all_strings(n)
        F[i \in 0..Len(raw)] ==
            IF i = 0 THEN <<>>
            ELSE IF strip(raw[i]) = <<>> THEN F[i-1]
            ELSE Append(F[i-1], strip(raw[i]))
    IN F[Len(raw)]

\* get_text without strip=True
get_text_nostrip(n) == Join(all_strings(n), <<" ">>)

\* li.get_text(separator=' ', strip=True): every text node stripped, the empty
\* ones dropped, the rest joined by the separator
get_text(n) == Join(StrippedRuns(n), <<" ">>)

RECURSIVE find_all_li(_)
\* soup.find_all('li'): every li of a node sequence, nested ones included, in
\* document order
find_all_li(nodes) ==
    LET F[i \in 0..Len(nodes)] ==
            IF i = 0 THEN <<>>
            ELSE LET n == nodes[i]
                 IN F[i-1] \o (IF n.tag = "li" THEN <<n>> ELSE <<>>)
                           \o (IF n.tag = "text" THEN <<>> ELSE find_all_li(n.kids))
    IN F[Len(nodes)]

RECURSIVE anchors_with_href(_)
\* the descendant anchors of a node that carry an href, in document order
anchors_with_href(n) ==
    IF n.tag = "text" THEN <<>>
    ELSE LET F[i \in 0..Len(n.kids)] ==
                 IF i = 0 THEN <<>>
                 ELSE LET k == n.kids[i]
                      IN F[i-1]
                         \o (IF k.tag = "a" /\ k.href # None THEN <<k>> ELSE <<>>)
                         \o anchors_with_href(k)
         IN F[Len(n.kids)]

\* li.find('a', href=True)
find_a_href(li) ==
    LET as == anchors_with_href(li)
    IN IF as = <<>> THEN None ELSE as[1]

\* ------------------------------------------------------------------- URLs
\* scheme: characters; netloc, query, fragment: opaque strings; the path is
\* absolute or not (abs) and a sequence of segments.
Url(scheme, netloc, abs, segs, query, fragment) ==
    [scheme |-> scheme, netloc |-> netloc, abs |-> abs, segs |-> segs,
     query |-> query, fragment |-> fragment]

http == <<"h","t","t","p">>
https == <<"h","t","t","p","s">>
HTTP == <<"H","T","T","P">>
ftp == <<"f","t","p">>
ftps == <<"f","t","p","s">>
mailto == <<"m","a","i","l","t","o">>

\* the empty string as a URL
EmptyUrl == Url(<<>>, "", FALSE, <<>>, "", "")

\* urllib.parse.uses_relative, the schemes of it the model's URLs use
uses_relative == {<<>>, ftp, http, https}

\* netlocs on which urlsplit raises ValueError("Invalid IPv6 URL"): a bracket
\* without its partner
UnbalancedNetlocs == {"[::1"}

\* urlparse(url) raises
UrlparseRaises(u) == u.netloc \in UnbalancedNetlocs

\* the href used as it stands
urljoin_nojoin(base, url) == url

\* urljoin(base, url), for a url urlparse accepts
urljoin(base, url) ==
    IF url = EmptyUrl THEN base       \* if not url: return base
    ELSE
    LET scheme == IF url.scheme = <<>> THEN base.scheme ELSE url.scheme
    IN IF scheme # base.scheme \/ scheme \notin uses_relative THEN url
       ELSE IF url.netloc # ""
            THEN Url(scheme, url.netloc, url.abs, url.segs, url.query,
                     url.fragment)
       ELSE IF ~url.abs /\ url.segs = <<>>
            THEN Url(scheme, base.netloc, base.abs, base.segs,
                     IF url.query = "" THEN base.query ELSE url.query,
                     url.fragment)
       ELSE IF url.abs
            THEN Url(scheme, base.netloc, TRUE, url.segs, url.query,
                     url.fragment)
       ELSE Url(scheme, base.netloc, TRUE,
                (IF base.segs = <<>> THEN <<>>
                 ELSE SubSeq(base.segs, 1, Len(base.segs) - 1)) \o url.segs,
                url.query, url.fragment)

\* ------------------------------------------------------------- extraction
Entry(text, url) == [text |-> text, url |-> url]
Returned(pts) == [raised |-> FALSE, points |-> pts]
Raised == [raised |-> TRUE, points |-> <<>>]

\* line 98: 'scholarship' in text.lower()
Matches(li) == Contains(lower(get_text(li)), Keyword)

RECURSIVE ExtractLoop(_, _, _)
\* the loop of lines 96-106 from list item i on, acc the points so far
ExtractLoop(items, base_url, acc) ==
    IF items = <<>> THEN Returned(acc)
    ELSE LET li == Head(items)
             text == get_text(li)
             link == find_a_href(li)
         IN IF ~Contains(lower(text), Keyword)
            THEN ExtractLoop(Tail(items), base_url, acc)
            ELSE IF link = None
            THEN ExtractLoop(Tail(items), base_url,
                             Append(acc, Entry(text, None)))
            ELSE IF UrlparseRaises(link.href) THEN Raised
            ELSE ExtractLoop(Tail(items), base_url,
                             Append(acc, Entry(text, urljoin(base_url, link.href))))

extract_scholarship_data(page, base_url) ==
    ExtractLoop(find_all_li(page), base_url, <<>>)

\* ----------------------------------------------------------------- inputs
\* every sequence over S of length lo..hi
SeqsOf(S, lo, hi) == UNION {[1..k -> S] : k \in lo..hi}

tMerit == <<"A"," "," ","S","c","h","o","l","a","r","s","h","i","p">>
tScholar == <<" ","s","c","h","o","l","a","r">>
tShip == <<"S","H","I","P","\n">>
tBlank == <<" ","\n">>
tApply == <<"A","p","p","l","y">>

TextNodes == {TextNode(tMerit), TextNode(tScholar), TextNode(tShip),
              TextNode(tBlank)}

hAbsPath == Url(<<>>, "", TRUE, <<"apply">>, "", "")               \* /apply
hRelPath == Url(<<>>, "", FALSE, <<"apply">>, "", "")              \* apply
hSchemeRel == Url(<<>>, "other.org", TRUE, <<"x">>, "", "")        \* //other.org/x
hQuery == Url(<<>>, "", FALSE, <<>>, "q=1", "")                    \* ?q=1
hFragment == Url(<<>>, "", FALSE, <<>>, "", "top")                 \* #top
hAbsolute == Url(https, "other.org", TRUE, <<"x">>, "", "")        \* https://other.org/x
hMailto == Url(mailto, "", FALSE, <<"a@b.c">>, "", "")             \* mailto:a@b.c
hSameScheme == Url(http, "", FALSE, <<"apply">>, "", "")           \* http:apply
hUnbalanced == Url(<<>>, "[::1", TRUE, <<"x">>, "", "")            \* //[::1/x

Hrefs == {hAbsPath, hRelPath, hSchemeRel, hQuery, hFragment, EmptyUrl,
          hAbsolute, hMailto, hSameScheme, hUnbalanced}

Anchors == {Anchor(h, <<TextNode(tApply)>>) : h \in Hrefs \cup {None}}

NestedLis == {Li(<<TextNode(tMerit)>>), Li(<<TextNode(tScholar)>>)}

Nodes == TextNodes \cup Anchors \cup NestedLis

\* every li of 1..MaxNodes child nodes
AllLis == {Li(kids) : kids \in SeqsOf(Nodes, 1, MaxNodes)}

liPlain == Li(<<TextNode(tMerit)>>)
liLinked == Li(<<TextNode(tMerit), Anchor(hAbsPath, <<TextNode(tApply)>>)>>)
liOther == Li(<<TextNode(tScholar), TextNode(tShip)>>)
liUnbalanced == Li(<<TextNode(tMerit), Anchor(hUnbalanced, <<TextNode(tApply)>>)>>)

CoreLis == {liPlain, liLinked, liOther, liUnbalanced}

\* the pages a fetch may return: up to MaxItems list items
PageDocs == SeqsOf(CoreLis, 0, MaxItems)

\* the pages extraction is called on directly: those, and every one-item page
Docs == PageDocs \cup {<<li>> : li \in AllLis}

uPage == Url(http, "example.edu", TRUE, <<"dir","page">>, "", "")  \* http://example.edu/dir/page
uUpper == Url(HTTP, "example.edu", FALSE, <<>>, "", "")            \* HTTP://example.edu
uSecure == Url(https, "example.edu", TRUE, <<"dir","page">>, "", "") \* https://example.edu/dir/page
uFtp == Url(ftp, "example.edu", TRUE, <<"page">>, "", "")          \* ftp://example.edu/page
uNoScheme == Url(<<>>, "", FALSE, <<"example.edu","page">>, "", "") \* example.edu/page
uBadHost == Url(http, "exa_mple", TRUE, <<>>, "", "")              \* http://exa_mple/
uUnbalanced == Url(http, "[::1", TRUE, <<>>, "", "")               \* http://[::1/

RawUrls == {uPage, uUpper, uFtp, uNoScheme, uBadHost, uUnbalanced}

\* request.get_json(): nothing or a falsy value; a value that is no object,
\* such as [1]; an object without a usable 'url'; an object whose 'url' is a
\* number; an object whose 'url' is a string
Payloads == {[kind |-> "empty"], [kind |-> "notdict"], [kind |-> "nourl"],
             [kind |-> "nonstr"]}
            \cup {[kind |-> "url", url |-> u] : u \in RawUrls}

\* ------------------------------------------------------- the scrape route
Threads == {1, 2}
\* a local that holds no sequence yet, and one that holds no offset
Nil == <<None>>
NotRun == <<[notrun |-> TRUE]>>
NotCalled == [notcalled |-> TRUE]
Closed == -1

\* sanitize_input: urlparse(url).geturl(); urlsplit lower-cases the scheme
sanitize_input(u) == [u EXCEPT !.scheme = lower(u.scheme)]

\* line 172 raises: urlparse of a number (AttributeError) or of a string with an
\* unbalanced bracket in its netloc (ValueError)
SanitizeRaises(payload) ==
    \/ payload.kind = "nonstr"
    \/ payload.kind = "url" /\ UrlparseRaises(payload.url)

\* the scheme alternatives of the regex, lines 51
ValidSchemes == {http, https, ftp, ftps}

\* netlocs of the model that match the host part of the regex, lines 52-56
HostShapes == {"example.edu", "other.org"}

\* validate_url: the regex, matched ignoring case
validate_url(u) == lower(u.scheme) \in ValidSchemes /\ u.netloc \in HostShapes

\* the validation result ignored
PassesValidation_always(u) == TRUE

\* line 173: the test that lets scrape go on to the fetch
PassesValidation(u) == validate_url(u)

\* requests mounts adapters for http:// and https:// only: any other scheme
\* raises InvalidSchema, a RequestException
Fetchable(u) == u.scheme \in {http, https}

FetchFailed == [ok |-> FALSE]

\* what requests.get(url, timeout=10) and raise_for_status can end in
FetchOutcomes(u) ==
    IF Fetchable(u)
    THEN {FetchFailed} \cup {[ok |-> TRUE, page |-> d] : d \in PageDocs}
    ELSE {FetchFailed}

Err(status, msg) == [status |-> status, body |-> [error |-> msg]]
ErrNoJson == Err(400, "Invalid request. JSON payload expected.")
ErrMissing == Err(400, "Missing URL")
ErrInvalidUrl == Err(400, "Invalid URL format")
ErrScrape == Err(500, "An error occurred while scraping the URL.")
\* an exception that leaves scrape (data.get on a value that is no object,
\* line 167; urlparse raising, line 172): the 500 handler of lines 240-250
ErrInternal == Err(500, "Internal server error.")
Ok(pts) == [status |-> 200, body |-> [points |-> pts]]
OkEmpty == [status |-> 200,
            body |-> [points |-> <<>>, message |-> "No scholarships found."]]

\* a failed fetch answered as a page without scholarships
FetchFailureResp_empty == OkEmpty

\* a failed fetch tried again
FetchFailurePc_retry == "fetch"

\* lines 78-80 and 189-191: a failed fetch is re-raised into scrape's except,
\* which answers with the error
FetchFailureResp == ErrScrape

\* lines 78-80 and 189-191: and the invocation is over
FetchFailurePc == "done"

\* the save done for an empty result too
ShouldSave_always(pts) == TRUE

\* line 181: if points
ShouldSave(pts) == pts # <<>>

\* the IOError left to reach scrape's except
SaveFailureResp_propagates(pts) == ErrScrape

\* lines 122-123 and 183-184: save_to_json swallows the IOError, scrape returns
SaveFailureResp(pts) == Ok(pts)

\* json.dump(data, file): the chunks written, one per entry between the brackets
Dump(pts) == <<[tok |-> "["]>> \o pts \o <<[tok |-> "]"]>>

\* a write of one chunk at offset pos of the file (a hole reads as NUL)
WriteAt(f, pos, chunk) ==
    [i \in 1..(IF pos + 1 > Len(f) THEN pos + 1 ELSE Len(f)) |->
        IF i = pos + 1 THEN chunk
        ELSE IF i <= Len(f) THEN f[i]
        ELSE [tok |-> "NUL"]]

\* lines 160-175: the request is read, sanitized and validated
Receive(p) ==
    /\ p \in threads
    /\ pc[p] \in {"idle", "done"}
    /\ started < MaxInvocations
    /\ started' = started + 1
    /\ \E payload \in Payloads :
        /\ req' = [req EXCEPT ![p] = payload]
        /\ IF payload.kind = "empty"
           THEN /\ resp' = [resp EXCEPT ![p] = ErrNoJson]
                /\ pc' = [pc EXCEPT ![p] = "done"]
                /\ sanitized_url' = [sanitized_url EXCEPT ![p] = None]
           ELSE IF payload.kind = "notdict"
           THEN /\ resp' = [resp EXCEPT ![p] = ErrInternal]
                /\ pc' = [pc EXCEPT ![p] = "done"]
                /\ sanitized_url' = [sanitized_url EXCEPT ![p] = None]
           ELSE IF payload.kind = "nourl"
           THEN /\ resp' = [resp EXCEPT ![p] = ErrMissing]
                /\ pc' = [pc EXCEPT ![p] = "done"]
                /\ sanitized_url' = [sanitized_url EXCEPT ![p] = None]
           ELSE IF SanitizeRaises(payload)
           THEN /\ resp' = [resp EXCEPT ![p] = ErrInternal]
                /\ pc' = [pc EXCEPT ![p] = "done"]
                /\ sanitized_url' = [sanitized_url EXCEPT ![p] = None]
           ELSE IF PassesValidation(sanitize_input(payload.url))
           THEN /\ resp' = [resp EXCEPT ![p] = None]
                /\ pc' = [pc EXCEPT ![p] = "fetch"]
                /\ sanitized_url' =
                       [sanitized_url EXCEPT ![p] = sanitize_input(payload.url)]
           ELSE /\ resp' = [resp EXCEPT ![p] = ErrInvalidUrl]
                /\ pc' = [pc EXCEPT ![p] = "done"]
                /\ sanitized_url' =
                       [sanitized_url EXCEPT ![p] = sanitize_input(payload.url)]
    /\ soup' = [soup EXCEPT ![p] = Nil]
    /\ points' = [points EXCEPT ![p] = NotRun]
    /\ fetches' = [fetches EXCEPT ![p] = 0]
    /\ log' = [log EXCEPT ![p] = "none"]
    /\ fpos' = [fpos EXCEPT ![p] = Closed]
    /\ UNCHANGED <<file, lastSaved, torn, threads, xdoc, xbase, xout>>

\* line 178, lines 72-80: the one requests.get of the invocation
Fetch(p) ==
    /\ p \in threads
    /\ pc[p] = "fetch"
    /\ fetches[p] < MaxFetches
    /\ fetches' = [fetches EXCEPT ![p] = @ + 1]
    /\ \E out \in FetchOutcomes(sanitized_url[p]) :
        IF out.ok
        THEN /\ soup' = [soup EXCEPT ![p] = out.page]
             /\ pc' = [pc EXCEPT ![p] = "extract"]
             /\ UNCHANGED <<resp, log>>
        ELSE /\ log' = [log EXCEPT ![p] = "fetch_error"]
             /\ resp' = [resp EXCEPT ![p] =
                            IF FetchFailurePc = "done" THEN FetchFailureResp ELSE @]
             /\ pc' = [pc EXCEPT ![p] = FetchFailurePc]
             /\ UNCHANGED soup
    /\ UNCHANGED <<req, sanitized_url, points, file, fpos, started, lastSaved,
                   torn, threads, xdoc, xbase, xout>>

\* lines 179-187 and 189-191: extraction, and the answer when there is nothing
\* to save or extraction raised
Extract(p) ==
    /\ p \in threads
    /\ pc[p] = "extract"
    /\ LET r == extract_scholarship_data(soup[p], sanitized_url[p])
       IN IF r.raised
          THEN /\ resp' = [resp EXCEPT ![p] = ErrScrape]
               /\ pc' = [pc EXCEPT ![p] = "done"]
               /\ UNCHANGED points
          ELSE IF ShouldSave(r.points)
          THEN /\ points' = [points EXCEPT ![p] = r.points]
               /\ pc' = [pc EXCEPT ![p] = "open"]
               /\ UNCHANGED resp
          ELSE /\ points' = [points EXCEPT ![p] = r.points]
               /\ resp' = [resp EXCEPT ![p] = OkEmpty]
               /\ pc' = [pc EXCEPT ![p] = "done"]
    /\ soup' = [soup EXCEPT ![p] = Nil]
    /\ UNCHANGED <<req, sanitized_url, fetches, log, file, fpos, started,
                   lastSaved, torn, threads, xdoc, xbase, xout>>

\* line 119: open(filename, 'w') truncates the file, or fails and leaves it
SaveOpen(p) ==
    /\ p \in threads
    /\ pc[p] = "open"
    /\ \/ /\ file' = <<>>
          /\ fpos' = [fpos EXCEPT ![p] = 0]
          /\ pc' = [pc EXCEPT ![p] = "write"]
          /\ UNCHANGED <<resp, log>>
       \/ /\ log' = [log EXCEPT ![p] = "save_failed"]
          /\ resp' = [resp EXCEPT ![p] = SaveFailureResp(points[p])]
          /\ pc' = [pc EXCEPT ![p] = "done"]
          /\ UNCHANGED <<file, fpos>>
    /\ UNCHANGED <<req, sanitized_url, soup, points, fetches, started, lastSaved,
                   torn, threads, xdoc, xbase, xout>>

\* line 120: json.dump writes the next chunk at this file object's offset, or
\* the write fails and what was written stays
SaveWrite(p) ==
    /\ p \in threads
    /\ pc[p] = "write"
    /\ fpos[p] < Len(Dump(points[p]))
    /\ \/ /\ file' = WriteAt(file, fpos[p], Dump(points[p])[fpos[p] + 1])
          /\ fpos' = [fpos EXCEPT ![p] = @ + 1]
          /\ UNCHANGED <<pc, resp, log, torn>>
       \/ /\ log' = [log EXCEPT ![p] = "save_failed"]
          /\ resp' = [resp EXCEPT ![p] = SaveFailureResp(points[p])]
          /\ pc' = [pc EXCEPT ![p] = "done"]
          /\ fpos' = [fpos EXCEPT ![p] = Closed]
          /\ torn' = points[p]
          /\ UNCHANGED file
    /\ UNCHANGED <<req, sanitized_url, soup, points, fetches, started, lastSaved,
                   threads, xdoc, xbase, xout>>

\* lines 121 and 183-184: the file is closed, the save logged, the points returned
SaveClose(p) ==
    /\ p \in threads
    /\ pc[p] = "write"
    /\ fpos[p] = Len(Dump(points[p]))
    /\ log' = [log EXCEPT ![p] = "saved"]
    /\ resp' = [resp EXCEPT ![p] = Ok(points[p])]
    /\ pc' = [pc EXCEPT ![p] = "done"]
    /\ fpos' = [fpos EXCEPT ![p] = Closed]
    /\ lastSaved' = IF points[p] # <<>> THEN points[p] ELSE lastSaved
    /\ torn' = Nil
    /\ UNCHANGED <<req, sanitized_url, soup, points, fetches, file, started,
                   threads, xdoc, xbase, xout>>

\* a direct call of extract_scholarship_data
ExtractCall ==
    /\ xout = NotCalled
    /\ xout' = extract_scholarship_data(xdoc, xbase)
    /\ UNCHANGED <<pc, req, sanitized_url, soup, points, resp, fetches, log, file,
                   fpos, started, lastSaved, torn, threads, xdoc, xbase>>

\* the sanitized URLs scrape can hand to extraction, valid and fetched: those
\* of the requests above, and an https one
XBases == {sanitize_input(u) : u \in
              {v \in RawUrls \cup {uSecure} :
                               /\ ~UrlparseRaises(v)
                               /\ validate_url(sanitize_input(v))
                               /\ Fetchable(sanitize_input(v))}}

Idle(ts) ==
    /\ pc = [p \in Threads |-> "idle"]
    /\ req = [p \in Threads |-> None]
    /\ sanitized_url = [p \in Threads |-> None]
    /\ soup = [p \in Threads |-> Nil]
    /\ points = [p \in Threads |-> NotRun]
    /\ resp = [p \in Threads |-> None]
    /\ fetches = [p \in Threads |-> 0]
    /\ log = [p \in Threads |-> "none"]
    /\ fpos = [p \in Threads |-> Closed]
    /\ file = <<>>
    /\ started = 0
    /\ lastSaved = Nil
    /\ torn = Nil
    /\ threads = ts

\* one client: requests arrive one after the other
Init == Idle({1}) /\ xdoc = <<>> /\ xbase = None /\ xout = NotCalled

\* the threaded server: two requests may be in progress at once
ConcInit == Idle(Threads) /\ xdoc = <<>> /\ xbase = None /\ xout = NotCalled

\* extraction alone, on any page and base URL of the model
XInit == Idle({}) /\ xdoc \in Docs /\ xbase \in XBases /\ xout = NotCalled

Next ==
    \E p \in Threads :
        \/ Receive(p)
        \/ Fetch(p)
        \/ Extract(p)
        \/ SaveOpen(p)
        \/ SaveWrite(p)
        \/ SaveClose(p)

XNext == ExtractCall

Spec == Init /\ [][Next]_vars
ConcSpec == ConcInit /\ [][Next]_vars
ExtractSpec == XInit /\ [][XNext]_vars

\* ------------------------------------------------------------- properties
\* the list items of the page extraction was called on that mention the keyword
XMatching == SelectSeq(find_all_li(xdoc), Matches)

\* every thread is between invocations
AtRest == \A p \in Threads : pc[p] \in {"idle", "done"}

\* what the file holds after a save of pts that succeeded (nothing before any)
Saved(pts) == IF pts = Nil THEN <<>> ELSE Dump(pts)

\* the characters of s that are not whitespace, in order
NonSpace(s) == SelectSeq(s, LAMBDA c : ~IsSpace(c))

\* the sum of the lengths of the stripped runs, and how many are not empty
RunsLen(raw) ==
    LET F[i \in 0..Len(raw)] ==
            IF i = 0 THEN 0 ELSE F[i-1] + Len(strip(raw[i]))
    IN F[Len(raw)]
RunsCount(raw) == Cardinality({i \in 1..Len(raw) : strip(raw[i]) # <<>>})
Concat(raw) ==
    LET F[i \in 0..Len(raw)] == IF i = 0 THEN <<>> ELSE F[i-1] \o raw[i]
    IN F[Len(raw)]

\* C1: when the sanitized URL fails validate_url the invocation ends with the
\* 'Invalid URL format' error and has fetched nothing; a thread has fetched
\* only if its sanitized URL passed validate_url.
C1_NoFetchUnlessValid ==
    \A p \in Threads :
        /\ fetches[p] > 0 =>
               sanitized_url[p] # None /\ validate_url(sanitized_url[p])
        /\ (pc[p] = "done" /\ sanitized_url[p] # None
                /\ ~validate_url(sanitized_url[p]))
           => resp[p] = ErrInvalidUrl /\ fetches[p] = 0

C1_Witness ==
    \E p \in Threads :
        /\ pc[p] = "done" /\ sanitized_url[p] # None
        /\ ~validate_url(sanitized_url[p])
        /\ resp[p] = ErrInvalidUrl

\* C2: extraction returns exactly one entry per list item whose flattened
\* text contains 'scholarship' ignoring case, in document order, duplicates
\* kept, and nothing for the other items.
C2_OnePerMatch ==
    xout # NotCalled =>
        /\ ~xout.raised
        /\ Len(xout.points) = Len(XMatching)
        /\ \A k \in 1..Len(XMatching) :
               xout.points[k].text = get_text(XMatching[k])

\* Extraction that does not raise returns one entry per list item that
\* mentions the keyword, in document order, with that item's text.
ExtractOnePerMatchUnlessRaised ==
    (xout # NotCalled /\ ~xout.raised) =>
        /\ Len(xout.points) = Len(XMatching)
        /\ \A k \in 1..Len(XMatching) :
               xout.points[k].text = get_text(XMatching[k])

\* C3: a failed fetch ends the invocation with a response that carries only
\* an error field; extraction has not run, there are no points, and this
\* invocation never opened the output file.
C3_FetchFailureIsError ==
    \A p \in Threads :
        log[p] = "fetch_error" =>
            /\ pc[p] = "done"
            /\ DOMAIN resp[p].body = {"error"}
            /\ resp[p].status = 500
            /\ points[p] = NotRun
            /\ soup[p] = Nil
            /\ fpos[p] = Closed

C3_Witness ==
    \E p \in Threads : log[p] = "fetch_error" /\ pc[p] = "done" /\ fetches[p] = 1

\* C4, as stated: every url of an entry is null or has a scheme and a host.
C4_AbsoluteWithHost ==
    xout # NotCalled =>
        \A k \in 1..Len(xout.points) :
            LET u == xout.points[k].url
            IN u = None \/ (u.scheme # <<>> /\ u.netloc # "")

\* C4, amended: every url of an entry is null (the item has no anchor with an
\* href) or has a scheme, so it is never a bare relative path; it is the href
\* itself when the href carries a scheme other than the page's, and otherwise
\* has the page's scheme, a host and an absolute (or empty) path.
C4_SchemeAlways ==
    xout # NotCalled =>
        \A k \in 1..Len(xout.points) :
            LET u == xout.points[k].url
                a == find_a_href(XMatching[k])
            IN IF a = None THEN u = None
               ELSE /\ u # None
                    /\ u.scheme # <<>>
                    /\ IF a.href.scheme \notin {<<>>, xbase.scheme}
                       THEN u = a.href
                       ELSE /\ u.scheme = xbase.scheme
                            /\ u.netloc # ""
                            /\ (u.segs # <<>> => u.abs)

C4_Witness ==
    /\ xout # NotCalled
    /\ xbase = uPage
    /\ \E k \in 1..Len(xout.points) :
           /\ find_a_href(XMatching[k]) # None
           /\ find_a_href(XMatching[k]).href = hRelPath
           /\ xout.points[k].url =
                  Url(http, "example.edu", TRUE, <<"dir", "apply">>, "", "")

\* C5: when the invocations are over and no save failed, the file holds
\* exactly the data of one invocation that saved, as it would had that one run
\* alone: never a mixture of the data of two.
C5_FileIsOneSave ==
    (/\ AtRest
     /\ \E p \in Threads : log[p] = "saved"
     /\ \A p \in Threads : log[p] # "save_failed")
        => \E p \in Threads : log[p] = "saved" /\ file = Dump(points[p])

\* C6: once fetch and extraction have produced entries, the invocation ends
\* with the success response holding exactly those entries, whether the save
\* succeeded or failed.
C6_SaveFailureKeepsResponse ==
    \A p \in Threads :
        (pc[p] = "done" /\ points[p] # NotRun /\ points[p] # <<>>)
            => resp[p] = Ok(points[p])

C6_Witness ==
    \E p \in Threads :
        /\ pc[p] = "done" /\ log[p] = "save_failed"
        /\ points[p] # NotRun /\ points[p] # <<>>
        /\ resp[p] = Ok(points[p])

\* C7: an invocation fetches at most once, and exactly once when its URL
\* passed validation and the fetch step is behind it, failed or not.
C7_OneFetch ==
    \A p \in Threads :
        /\ fetches[p] <= 1
        /\ (sanitized_url[p] # None /\ validate_url(sanitized_url[p])
                /\ pc[p] # "fetch")
           => fetches[p] = 1

C7_Witness ==
    \E p \in Threads : pc[p] = "done" /\ log[p] = "fetch_error" /\ fetches[p] = 1

\* C8: an invocation whose URL string cannot be parsed ends as the
\* 'Invalid URL format' rejection.
C8_UnparseableIsInvalidUrl ==
    \A p \in Threads :
        (pc[p] = "done" /\ req[p] # None /\ req[p].kind = "url"
            /\ UrlparseRaises(req[p].url))
            => resp[p] = ErrInvalidUrl

\* C9, as stated: the text of an entry has no whitespace at its ends, and
\* every whitespace character in it is a single space between two others.
C9_Collapsed ==
    xout # NotCalled =>
        \A k \in 1..Len(xout.points) :
            LET t == xout.points[k].text
            IN /\ t # <<>>
               /\ ~IsSpace(t[1]) /\ ~IsSpace(t[Len(t)])
               /\ \A i \in 1..(Len(t) - 1) :
                      IsSpace(t[i]) => (t[i] = " " /\ ~IsSpace(t[i+1]))

\* C9, amended: the text of an entry is the item's text runs, each stripped of
\* the whitespace at its ends, the empty ones dropped, joined by one space: it
\* has no whitespace at its ends, holds every stripped run whole (whitespace
\* inside a run is kept as it is), holds the item's other characters in order,
\* and is as long as the stripped runs and one space between each two.
C9_RunsStripped ==
    xout # NotCalled =>
        \A k \in 1..Len(xout.points) :
            LET t == xout.points[k].text
                raw == all_strings(XMatching[k])
            IN /\ t # <<>>
               /\ ~IsSpace(t[1]) /\ ~IsSpace(t[Len(t)])
               /\ \A i \in 1..Len(raw) : Contains(t, strip(raw[i]))
               /\ NonSpace(t) = NonSpace(Concat(raw))
               /\ Len(t) = RunsLen(raw) + RunsCount(raw) - 1

C9_Witness ==
    /\ xout # NotCalled
    /\ xdoc = <<Li(<<TextNode(tShip), TextNode(tMerit)>>)>>
    /\ Len(xout.points) = 1
    /\ xout.points[1].text =
           <<"S","H","I","P"," ","A"," "," ","S","c","h","o","l","a","r","s","h","i","p">>

\* C10, as stated: between invocations the file holds exactly the data of the
\* last invocation that had entries and whose save succeeded.
C10_FileIsLastSaved == AtRest => file = Saved(lastSaved)

\* C10, amended: between invocations the file holds exactly the data of the
\* last invocation that had entries and whose save succeeded, unless a later
\* invocation's write failed after it had opened the file: then the file holds
\* what that write put down before it failed, a proper prefix of its data.
\* Invocations that are rejected, fail at the fetch, find no entries or cannot
\* open the file leave it as it was.
C10_FileIsLastSavedOrPrefix ==
    AtRest =>
        IF torn = Nil THEN file = Saved(lastSaved)
        ELSE \E n \in 0..(Len(Dump(torn)) - 1) : file = SubSeq(Dump(torn), 1, n)

C10_Witness ==
    /\ AtRest
    /\ started = 2
    /\ resp[1] = OkEmpty
    /\ lastSaved # Nil
    /\ file = Dump(lastSaved)

====
